---- MODULE Spec2Model ----
(***************************************************************************)
(* Model of interface/app/$libraryId/settings/client/account/index.tsx:    *)
(* the Account Panel (Component) and the Hosted Locations Playground.      *)
(* One step of the model is one run of an event handler or promise         *)
(* callback together with the re-render and the effects it causes.         *)
(***************************************************************************)
EXTENDS Naturals, Sequences, FiniteSets, TLC

\* ------------------------------------------------------------------ bounds
MaxMutations == 2      \* mutate() calls explored
MaxToasts == 1         \* notifications explored
MaxAutoFills == 2      \* auto-fill writes explored

\* ------------------------------------------------------------ value domains
Undefined == "undefined"                 \* JS undefined (absent property)
IdStr == <<"1", "2", "3", "4", "5">>       \* ids the backend hands out, in order
NameInputs == {"", "docs"}               \* values typed into the name input
PathInputs == {"", "my/file.txt"}        \* values typed into the path input
ErrorMessages == {"upload failed", "no such location"}
Statuses == {200, 500}                   \* HTTP statuses of GET /api/user

\* JSON payloads of GET /api/user: JSON null, the "unauthorised" marker, an
\* error object without a message, and a User.
NullJson == [kind |-> "null", message |-> Undefined, email |-> Undefined]
Payloads ==
    { NullJson,
      [kind |-> "object", message |-> "unauthorised", email |-> Undefined],
      [kind |-> "object", message |-> Undefined, email |-> Undefined],
      [kind |-> "object", message |-> Undefined, email |-> "ada@sd.app"] }
\* What fetch() can produce: a rejected request, or a response of any status
\* whose body is not JSON or is one of the payloads.
Responses ==
    { [rejected |-> TRUE, status |-> 0, json |-> FALSE, body |-> NullJson] }
    \cup { [rejected |-> FALSE, status |-> s, json |-> FALSE, body |-> NullJson] : s \in Statuses }
    \cup { [rejected |-> FALSE, status |-> s, json |-> TRUE, body |-> b] : s \in Statuses, b \in Payloads }
NoResponse == [rejected |-> FALSE, status |-> 0, json |-> FALSE, body |-> NullJson]

VARIABLES
    userInfo,        \* useState<User | null>(null)
    profileFetch,    \* "pending" | "settled": the on-mount fetch of /api/user
    profileResp,     \* history: what that fetch produced
    locationName,    \* useState('')
    path,            \* useState('')
    createLocation,  \* useBridgeMutation('cloud.locations.create')
    removeLocation,  \* useBridgeMutation('cloud.locations.remove')
    doTheThing,      \* useBridgeMutation('cloud.locations.testing')
    locations,       \* useBridgeQuery(['cloud.locations.list'])
    server,          \* the backend's locations
    toasts,          \* notifications shown, oldest first
    mutateCalls,     \* history: number of mutate() calls
    refetchCalls,    \* history: number of locations.refetch() calls
    autoFills,       \* history: number of setPath calls made by the effect
    userEdited,      \* history: the user has edited the path field
    lastResolvedVer, \* history: server version produced by the last resolved create/remove
    emptyNameClicked \* history: Create Location has been clicked with an empty name

vars == <<userInfo, profileFetch, profileResp, locationName, path, createLocation,
          removeLocation, doTheThing, locations, server, toasts, mutateCalls,
          refetchCalls, autoFills, userEdited, lastResolvedVer, emptyNameClicked>>

accountVars == <<userInfo, profileFetch, profileResp>>
historyVars == <<mutateCalls, refetchCalls, autoFills, userEdited, lastResolvedVer,
                 emptyNameClicked>>

\* ----------------------------------------------------------- Account Panel
\* async function _(): await fetch(...); await user_data.json().  The promise
\* resolves with the parsed body whatever the HTTP status; it rejects when the
\* request is rejected or the body is not JSON.
FetchResolves(r) == ~r.rejected /\ r.json

\* Mutant of ThenSetUserInfo: the test on the marker inverted (=== for !==).
ThenSetUserInfo_Inverted(old, data) ==
    IF data.kind = "null" THEN old
    ELSE IF data.message = "unauthorised" THEN data
    ELSE NullJson

\* The .then callback: data.message on JSON null throws (the state is left
\* alone); otherwise setUserInfo(data) unless message is 'unauthorised'.
ThenSetUserInfo(old, data) ==
    IF data.kind = "null" THEN old
    ELSE IF data.message # "unauthorised" THEN data
    ELSE NullJson

ProfileSettle(r) ==
    /\ profileFetch = "pending"
    /\ profileFetch' = "settled"
    /\ profileResp' = r
    /\ userInfo' = IF FetchResolves(r) THEN ThenSetUserInfo(userInfo, r.body) ELSE userInfo
    /\ UNCHANGED <<locationName, path, createLocation, removeLocation, doTheThing,
                   locations, server, toasts>>
    /\ UNCHANGED historyVars

\* Render of Component.
ShowLogout == userInfo # NullJson
ShowTabs == userInfo = NullJson
ShowProfile == ~(userInfo = NullJson)
ProfileEmail == userInfo.email

\* ------------------------------------------------- Hosted Locations Playground
\* A mutation of useBridgeMutation: its status, the variables of the last
\* mutate() call, and where the request in flight is ("sent": on its way to
\* the backend; "applied": the backend has executed it and the response is on
\* its way back).  ver is the backend version the request produced.
IdleMutation(v) == [status |-> "idle", variables |-> v, phase |-> "none", ver |-> 0]
StartMutation(v) == [status |-> "loading", variables |-> v, phase |-> "sent", ver |-> 0]
NoTestingArgs == [id |-> Undefined, path |-> Undefined]

\* The list query: status is 'loading' while there is no data yet, data is
\* kept over a failed refetch; fetch is the request in flight and snap the
\* backend list that its response carries.
MountQuery ==
    [status |-> "loading", hasData |-> FALSE, data |-> <<>>, ver |-> 0,
     fetch |-> "sent", snap |-> <<>>, snapVer |-> 0]

\* locations.refetch(): a fetch in flight is cancelled and replaced when the
\* query already has data, and joined when it has none; an idle query starts a
\* fetch, going back to 'loading' when it has no data.
Refetch(q) ==
    IF q.fetch # "idle"
    THEN IF q.hasData
         THEN [q EXCEPT !.fetch = "sent", !.snap = <<>>, !.snapVer = 0]
         ELSE q
    ELSE [q EXCEPT !.fetch = "sent",
                   !.status = IF q.hasData THEN q.status ELSE "loading"]

\* Mutant of isLoading: doTheThing.isLoading left out.
isLoading_WithoutDoTheThing ==
    \/ createLocation.status = "loading"
    \/ removeLocation.status = "loading"

\* const isLoading = createLocation.isLoading || removeLocation.isLoading || doTheThing.isLoading
isLoading ==
    \/ createLocation.status = "loading"
    \/ removeLocation.status = "loading"
    \/ doTheThing.status = "loading"

\* Mutant of DeleteButtonDisabled: the Delete buttons are never disabled.
DeleteButtonDisabled_Never == FALSE

\* The disabled prop of each control.
NameInputDisabled == isLoading
CreateButtonDisabled == isLoading
DeleteButtonDisabled == isLoading
DoTheThingButtonDisabled == isLoading
PathInputDisabled == isLoading

\* The three conditional views of the list.
ShowLoading == locations.status = "loading"
ShowEmpty == locations.status # "loading" /\ locations.hasData /\ Len(locations.data) = 0
ShowListContainer == ~ShowEmpty
\* locations.data?.map(...): the rows inside the list container.
RenderedRows == IF ShowListContainer /\ locations.hasData THEN locations.data ELSE <<>>

\* Mutant of AutoFillFires: the effect does not test path === ''.
AutoFillFires_AnyPath(p, q) == q.hasData /\ Len(q.data) > 0

\* useEffect(() => { if (path === '' && locations.data?.[0]) setPath(...) }, [path, locations.data])
AutoFillFires(p, q) == p = "" /\ q.hasData /\ Len(q.data) > 0
AutoFill(p, q) ==
    IF AutoFillFires(p, q) THEN "location/" \o q.data[1].id \o "/hello.txt" ELSE p

\* onInput of the name input.
InputName(v) ==
    /\ ~NameInputDisabled
    /\ v # locationName
    /\ locationName' = v
    /\ UNCHANGED <<path, createLocation, removeLocation, doTheThing, locations,
                   server, toasts>>
    /\ UNCHANGED accountVars
    /\ UNCHANGED historyVars

\* onInput of the path input, and the effect its re-render runs.
InputPath(v) ==
    /\ ~PathInputDisabled
    /\ v # path
    /\ AutoFillFires(v, locations) => autoFills < MaxAutoFills
    /\ path' = AutoFill(v, locations)
    /\ autoFills' = IF AutoFillFires(v, locations) THEN autoFills + 1 ELSE autoFills
    /\ userEdited' = TRUE
    /\ UNCHANGED <<locationName, createLocation, removeLocation, doTheThing,
                   locations, server, toasts, mutateCalls, refetchCalls, lastResolvedVer,
                   emptyNameClicked>>
    /\ UNCHANGED accountVars

\* Mutant of ClickCreate: the early return on an empty name is missing.
ClickCreate_NoEmptyCheck ==
    /\ ~CreateButtonDisabled
    /\ mutateCalls < MaxMutations
    /\ createLocation' = StartMutation(locationName)
    /\ mutateCalls' = mutateCalls + 1
    /\ UNCHANGED <<locationName, path, removeLocation, doTheThing, locations,
                   server, toasts, refetchCalls, autoFills, userEdited, lastResolvedVer,
                   emptyNameClicked>>
    /\ UNCHANGED accountVars

\* onClick of the Create Location button.
ClickCreate ==
    /\ ~CreateButtonDisabled
    /\ IF locationName = ""
       THEN /\ emptyNameClicked' = TRUE
            /\ UNCHANGED <<createLocation, mutateCalls>>
       ELSE /\ mutateCalls < MaxMutations
            /\ UNCHANGED emptyNameClicked
            /\ createLocation' = StartMutation(locationName)
            /\ mutateCalls' = mutateCalls + 1
    /\ UNCHANGED <<locationName, path, removeLocation, doTheThing, locations,
                   server, toasts, refetchCalls, autoFills, userEdited, lastResolvedVer>>
    /\ UNCHANGED accountVars

\* onClick of the Delete button of row i.
ClickDelete(i) ==
    /\ i \in 1..Len(RenderedRows)
    /\ ~DeleteButtonDisabled
    /\ mutateCalls < MaxMutations
    /\ removeLocation' = StartMutation(RenderedRows[i].id)
    /\ mutateCalls' = mutateCalls + 1
    /\ UNCHANGED <<locationName, path, createLocation, doTheThing, locations,
                   server, toasts, refetchCalls, autoFills, userEdited, lastResolvedVer,
                   emptyNameClicked>>
    /\ UNCHANGED accountVars

\* onClick of the 'Do the thing' button of row i.
ClickDoTheThing(i) ==
    /\ i \in 1..Len(RenderedRows)
    /\ ~DoTheThingButtonDisabled
    /\ mutateCalls < MaxMutations
    /\ Len(toasts) < MaxToasts
    /\ doTheThing' = StartMutation([id |-> RenderedRows[i].id, path |-> path])
    /\ mutateCalls' = mutateCalls + 1
    /\ UNCHANGED <<locationName, path, createLocation, removeLocation, locations,
                   server, toasts, refetchCalls, autoFills, userEdited, lastResolvedVer,
                   emptyNameClicked>>
    /\ UNCHANGED accountVars

\* ------------------------------------------------------------- the backend
RECURSIVE WithoutId(_, _)
WithoutId(locs, id) ==
    IF locs = <<>> THEN <<>>
    ELSE IF Head(locs).id = id THEN WithoutId(Tail(locs), id)
    ELSE <<Head(locs)>> \o WithoutId(Tail(locs), id)

HasId(locs, id) == \E k \in 1..Len(locs) : locs[k].id = id

\* cloud.locations.create(name) executed by the backend.
ServerCreate ==
    /\ createLocation.status = "loading" /\ createLocation.phase = "sent"
    /\ server' = [locs |-> Append(server.locs, [id |-> IdStr[server.nextId],
                                                  name |-> createLocation.variables]),
                  ver |-> server.ver + 1,
                  nextId |-> server.nextId + 1]
    /\ createLocation' = [createLocation EXCEPT !.phase = "applied", !.ver = server.ver + 1]
    /\ UNCHANGED <<locationName, path, removeLocation, doTheThing, locations, toasts>>
    /\ UNCHANGED accountVars
    /\ UNCHANGED historyVars

\* cloud.locations.remove(id) executed by the backend.  A remove of an id the
\* backend no longer has (a stale row was clicked) can only fail.
ServerRemove ==
    /\ removeLocation.status = "loading" /\ removeLocation.phase = "sent"
    /\ HasId(server.locs, removeLocation.variables)
    /\ server' = [server EXCEPT !.locs = WithoutId(server.locs, removeLocation.variables),
                                !.ver = server.ver + 1]
    /\ removeLocation' = [removeLocation EXCEPT !.phase = "applied", !.ver = server.ver + 1]
    /\ UNCHANGED <<locationName, path, createLocation, doTheThing, locations, toasts>>
    /\ UNCHANGED accountVars
    /\ UNCHANGED historyVars

\* cloud.locations.list executed by the backend: the response carries the
\* list as it is now.
ServerList ==
    /\ locations.fetch = "sent"
    /\ locations' = [locations EXCEPT !.fetch = "answered", !.snap = server.locs,
                                      !.snapVer = server.ver]
    /\ UNCHANGED <<locationName, path, createLocation, removeLocation, doTheThing,
                   server, toasts>>
    /\ UNCHANGED accountVars
    /\ UNCHANGED historyVars

\* ------------------------------------------------------ responses arriving
\* The list response arrives: the query succeeds with the snapshot, the
\* component re-renders and the auto-fill effect runs.
ListSuccess ==
    /\ locations.fetch = "answered"
    /\ locations' = [locations EXCEPT !.fetch = "idle", !.status = "success",
                                      !.hasData = TRUE, !.data = locations.snap,
                                      !.ver = locations.snapVer,
                                      !.snap = <<>>, !.snapVer = 0]
    /\ path' = AutoFill(path, locations')
    /\ autoFills' = IF AutoFillFires(path, locations') THEN autoFills + 1 ELSE autoFills
    /\ UNCHANGED <<locationName, createLocation, removeLocation, doTheThing, server,
                   toasts, mutateCalls, refetchCalls, userEdited, lastResolvedVer,
                   emptyNameClicked>>
    /\ UNCHANGED accountVars

\* The list request fails (retry: false): status 'error', data kept.
ListError ==
    /\ locations.fetch \in {"sent", "answered"}
    /\ locations' = [locations EXCEPT !.fetch = "idle", !.status = "error",
                                      !.snap = <<>>, !.snapVer = 0]
    /\ UNCHANGED <<locationName, path, createLocation, removeLocation, doTheThing,
                   server, toasts>>
    /\ UNCHANGED accountVars
    /\ UNCHANGED historyVars

\* Mutant of createLocation_onSuccess: setLocationName('') is missing.
createLocation_onSuccess_KeepsName(q, name, calls) ==
    [locations |-> Refetch(q), locationName |-> name, refetchCalls |-> calls + 1]

\* createLocation: onSuccess(data) { locations.refetch(); setLocationName('') }
createLocation_onSuccess(q, name, calls) ==
    [locations |-> Refetch(q), locationName |-> "", refetchCalls |-> calls + 1]
\* createLocation has no onError.
createLocation_onError(q, name, calls) ==
    [locations |-> q, locationName |-> name, refetchCalls |-> calls]

\* removeLocation: onSuccess() { locations.refetch() }
removeLocation_onSuccess(q, calls) ==
    [locations |-> Refetch(q), refetchCalls |-> calls + 1]
\* Mutant of removeLocation_onError: a failed remove refetches the list too.
removeLocation_onError_Refetches(q, calls) ==
    [locations |-> Refetch(q), refetchCalls |-> calls + 1]

\* removeLocation has no onError.
removeLocation_onError(q, calls) ==
    [locations |-> q, refetchCalls |-> calls]

\* doTheThing: onSuccess() { toast.success('Uploaded file!') }
doTheThing_onSuccess(ts) ==
    Append(ts, [kind |-> "success", message |-> "Uploaded file!"])
\* Mutant of doTheThing_onError: a fixed text instead of err.message.
doTheThing_onError_FixedText(ts, message) ==
    Append(ts, [kind |-> "error", message |-> "Something went wrong"])

\* doTheThing: onError(err) { toast.error(err.message) }
doTheThing_onError(ts, message) ==
    Append(ts, [kind |-> "error", message |-> message])

CreateSettle(ok) ==
    /\ createLocation.status = "loading"
    /\ createLocation.phase = IF ok THEN "applied" ELSE "sent"
    /\ createLocation' = [createLocation EXCEPT !.status = IF ok THEN "success" ELSE "error",
                                                !.phase = "none"]
    /\ LET r == IF ok
                THEN createLocation_onSuccess(locations, locationName, refetchCalls)
                ELSE createLocation_onError(locations, locationName, refetchCalls)
       IN  /\ locations' = r.locations
           /\ locationName' = r.locationName
           /\ refetchCalls' = r.refetchCalls
    /\ lastResolvedVer' = IF ok THEN createLocation.ver ELSE lastResolvedVer
    /\ UNCHANGED <<path, removeLocation, doTheThing, server, toasts, mutateCalls,
                   autoFills, userEdited, emptyNameClicked>>
    /\ UNCHANGED accountVars

RemoveSettle(ok) ==
    /\ removeLocation.status = "loading"
    /\ removeLocation.phase = IF ok THEN "applied" ELSE "sent"
    /\ removeLocation' = [removeLocation EXCEPT !.status = IF ok THEN "success" ELSE "error",
                                                !.phase = "none"]
    /\ LET r == IF ok
                THEN removeLocation_onSuccess(locations, refetchCalls)
                ELSE removeLocation_onError(locations, refetchCalls)
       IN  /\ locations' = r.locations
           /\ refetchCalls' = r.refetchCalls
    /\ lastResolvedVer' = IF ok THEN removeLocation.ver ELSE lastResolvedVer
    /\ UNCHANGED <<locationName, path, createLocation, doTheThing, server, toasts,
                   mutateCalls, autoFills, userEdited, emptyNameClicked>>
    /\ UNCHANGED accountVars

TestingSuccess ==
    /\ doTheThing.status = "loading"
    /\ doTheThing' = [doTheThing EXCEPT !.status = "success", !.phase = "none"]
    /\ toasts' = doTheThing_onSuccess(toasts)
    /\ UNCHANGED <<locationName, path, createLocation, removeLocation, locations, server>>
    /\ UNCHANGED accountVars
    /\ UNCHANGED historyVars

TestingError(message) ==
    /\ doTheThing.status = "loading"
    /\ doTheThing' = [doTheThing EXCEPT !.status = "error", !.phase = "none"]
    /\ toasts' = doTheThing_onError(toasts, message)
    /\ UNCHANGED <<locationName, path, createLocation, removeLocation, locations, server>>
    /\ UNCHANGED accountVars
    /\ UNCHANGED historyVars

\* ------------------------------------------------------------ specification
Init ==
    /\ userInfo = NullJson
    /\ profileFetch = "pending"
    /\ profileResp = NoResponse
    /\ locationName = ""
    /\ path = ""
    /\ createLocation = IdleMutation(Undefined)
    /\ removeLocation = IdleMutation(Undefined)
    /\ doTheThing = IdleMutation(NoTestingArgs)
    /\ locations = MountQuery
    /\ server = [locs |-> <<[id |-> IdStr[1], name |-> "photos"]>>, ver |-> 0, nextId |-> 2]
    /\ toasts = <<>>
    /\ mutateCalls = 0
    /\ refetchCalls = 0
    /\ autoFills = 0
    /\ userEdited = FALSE
    /\ lastResolvedVer = 0
    /\ emptyNameClicked = FALSE

Next ==
    \/ \E r \in Responses : ProfileSettle(r)
    \/ \E v \in NameInputs : InputName(v)
    \/ \E v \in PathInputs : InputPath(v)
    \/ ClickCreate
    \/ \E i \in 1..MaxMutations + 1 : ClickDelete(i)
    \/ \E i \in 1..MaxMutations + 1 : ClickDoTheThing(i)
    \/ ServerCreate
    \/ ServerRemove
    \/ ServerList
    \/ ListSuccess
    \/ ListError
    \/ \E ok \in BOOLEAN : CreateSettle(ok)
    \/ \E ok \in BOOLEAN : RemoveSettle(ok)
    \/ TestingSuccess
    \/ \E m \in ErrorMessages : TestingError(m)

Spec == Init /\ [][Next]_vars

\* ------------------------------------------------------------------- claims
Pending(m) == m.status = "loading"
Succeeds(m, n) == m.status = "loading" /\ n.status = "success"
Fails(m, n) == m.status = "loading" /\ n.status = "error"
PendingCount ==
    (IF Pending(createLocation) THEN 1 ELSE 0)
    + (IF Pending(removeLocation) THEN 1 ELSE 0)
    + (IF Pending(doTheThing) THEN 1 ELSE 0)
PathFor(id) == "location/" \o id \o "/hello.txt"

\* C1: every mutating control (name input, Create button, every Delete and
\* 'Do the thing' button, path input) is disabled exactly when at least one of
\* the three mutations is pending.
C1_ControlsDisabledIffPending ==
    \A disabled \in {NameInputDisabled, CreateButtonDisabled, DeleteButtonDisabled,
                     DoTheThingButtonDisabled, PathInputDisabled} :
        disabled = (PendingCount > 0)

C1_Witness ==
    /\ Pending(doTheThing) /\ ~Pending(createLocation) /\ ~Pending(removeLocation)
    /\ Len(RenderedRows) > 0
    /\ PathInputDisabled /\ DeleteButtonDisabled

\* C2 (as stated): once the user has edited the path field, the auto-fill
\* effect never writes the path again.
C2_NoAutoFillAfterUserEdit == [][userEdited => autoFills' = autoFills]_vars

\* C2 (amended): the auto-fill writes the path only when the field is empty
\* (at mount, or because the user has just emptied it) and the list has a
\* first location, and it writes location/{id}/hello.txt for that location;
\* before any user edit it writes at most once; a non-empty path is changed
\* only by a user edit.
C2_AutoFillOnlyWhenEmpty ==
    /\ [](~userEdited => autoFills <= 1)
    /\ [][autoFills' # autoFills =>
            /\ autoFills' = autoFills + 1
            /\ locations'.hasData /\ Len(locations'.data) > 0
            /\ path' = PathFor(locations'.data[1].id)
            /\ path = "" \/ (~PathInputDisabled /\ path # "" /\ userEdited')]_vars
    /\ [][(path # "" /\ path' # path) =>
            (~PathInputDisabled /\ userEdited' /\ locations' = locations)]_vars

C2_Witness ==
    /\ userEdited
    /\ autoFills = 2
    /\ locations.hasData /\ Len(locations.data) > 0
    /\ path = PathFor(locations.data[1].id)

\* C3: clicking Create Location while the name input is empty issues no
\* create request, starts no list refetch, and leaves the name input, the
\* path field and the status of all three mutations unchanged.
C3_EmptyNameClickIsNoOp ==
    [][(ClickCreate /\ locationName = "") =>
          /\ mutateCalls' = mutateCalls
          /\ refetchCalls' = refetchCalls
          /\ UNCHANGED <<locationName, path, createLocation, removeLocation,
                         doTheThing, locations, server>>]_vars

C3_Witness ==
    /\ emptyNameClicked
    /\ locationName = ""
    /\ mutateCalls = 0
    /\ createLocation.status = "idle"

\* C4: a create that resolves successfully leaves the name input empty and
\* makes exactly one refetch call, after which a list fetch is in flight; a
\* create that fails makes no refetch call and leaves the list query and the
\* name input (still the name that was submitted) unchanged.
C4_CreateSuccessClearsAndRefetchesOnce ==
    [][/\ Succeeds(createLocation, createLocation') =>
            /\ locationName' = ""
            /\ refetchCalls' = refetchCalls + 1
            /\ locations'.fetch # "idle"
       /\ Fails(createLocation, createLocation') =>
            /\ refetchCalls' = refetchCalls
            /\ locations' = locations
            /\ locationName' = locationName
            /\ locationName' = createLocation.variables]_vars

C4_Witness ==
    /\ createLocation.status = "success"
    /\ createLocation.variables = "docs"
    /\ locationName = ""
    /\ refetchCalls = 1

\* C5: every failure of the profile fetch (rejected request, non-2xx
\* response whatever its body, or the "unauthorised" marker) leaves the panel
\* logged out: userInfo null, tabs shown, no logout button.
ProfileFetchFailed(r) ==
    \/ r.rejected
    \/ r.status \notin 200..299
    \/ (r.json /\ r.body.message = "unauthorised")
C5_FailureLeavesLoggedOut ==
    (profileFetch = "settled" /\ ProfileFetchFailed(profileResp)) =>
        (userInfo = NullJson /\ ShowTabs /\ ~ShowLogout)

\* C6: a null or absent result of the profile fetch yields the logged-out
\* view; a non-null payload other than the "unauthorised" marker yields the
\* profile view with that payload's email and the logout button; the logout
\* button is shown if and only if the profile view is, and the tabs otherwise.
C6_ViewFollowsPayload ==
    /\ ShowLogout <=> ShowProfile
    /\ ShowTabs <=> ~ShowProfile
    /\ profileFetch = "settled" =>
         LET absent == ~FetchResolves(profileResp) \/ profileResp.body = NullJson
         IN  /\ absent => (ShowTabs /\ ~ShowLogout)
             /\ (~absent /\ profileResp.body.message # "unauthorised") =>
                   (ShowProfile /\ ShowLogout /\ ProfileEmail = profileResp.body.email)

C6_Witness ==
    /\ profileFetch = "settled"
    /\ profileResp.json /\ profileResp.body.email = "ada@sd.app"
    /\ ShowProfile /\ ShowLogout /\ ProfileEmail = "ada@sd.app"

\* C7: in every state of the list query exactly one of the loading
\* indicator, the empty message and the list container is rendered.
C7_ExactlyOneView ==
    (IF ShowLoading THEN 1 ELSE 0) + (IF ShowEmpty THEN 1 ELSE 0)
        + (IF ShowListContainer THEN 1 ELSE 0) = 1

\* C8 (as stated): the visible list is never a snapshot of the backend taken
\* before the most recently resolved create or remove took effect.
C8_ListNeverOlderThanLastMutation ==
    (locations.hasData /\ lastResolvedVer > 0) => locations.ver >= lastResolvedVer

\* C8 (amended): refetch is called only when a create or remove resolves
\* successfully, exactly once each time and never for a failed one, and a
\* list fetch is then in flight; the resolution itself leaves the visible
\* list as it was, so the list stays older than the mutation until a list
\* response arrives; a response that replaces an already loaded list is not
\* older than the last resolved mutation.
C8_RefetchAfterSuccessOnly ==
    [][LET resolved == \/ Succeeds(createLocation, createLocation')
                       \/ Succeeds(removeLocation, removeLocation')
       IN  /\ refetchCalls' # refetchCalls => resolved
           /\ resolved =>
                /\ refetchCalls' = refetchCalls + 1
                /\ locations'.fetch # "idle"
                /\ locations'.hasData = locations.hasData
                /\ locations'.data = locations.data
                /\ locations'.ver = locations.ver
           /\ (Fails(createLocation, createLocation') \/ Fails(removeLocation, removeLocation'))
                => locations' = locations
           /\ (locations.hasData /\ locations.fetch = "answered" /\ locations'.fetch = "idle"
               /\ locations'.status = "success")
                => locations'.ver >= lastResolvedVer]_vars

C8_Witness ==
    /\ removeLocation.status = "success"
    /\ refetchCalls = 1
    /\ lastResolvedVer = 1
    /\ locations.fetch = "idle" /\ locations.status = "success"
    /\ locations.ver = 1 /\ locations.data = <<>>

\* C9: a diagnostic mutation is sent with the id of the clicked row and the
\* current path; when it settles exactly one notification is added, a success
\* notification or an error notification with the failure's message; it makes
\* no refetch call and leaves the list query, the name input and the path
\* field unchanged.
C9_DiagnosticNotifiesOnce ==
    [][/\ (~Pending(doTheThing) /\ Pending(doTheThing')) =>
            /\ \E i \in 1..Len(RenderedRows) : doTheThing'.variables.id = RenderedRows[i].id
            /\ doTheThing'.variables.path = path
       /\ Succeeds(doTheThing, doTheThing') =>
            toasts' = Append(toasts, [kind |-> "success", message |-> "Uploaded file!"])
       /\ \A m \in ErrorMessages : TestingError(m) =>
            toasts' = Append(toasts, [kind |-> "error", message |-> m])
       /\ Fails(doTheThing, doTheThing') =>
            (Len(toasts') = Len(toasts) + 1 /\ toasts'[Len(toasts')].kind = "error")
       /\ doTheThing'.status # doTheThing.status =>
            /\ refetchCalls' = refetchCalls
            /\ UNCHANGED <<locations, locationName, path>>]_vars

C9_Witness ==
    /\ doTheThing.status = "error"
    /\ doTheThing.variables.id = "1"
    /\ toasts = <<[kind |-> "error", message |-> "no such location"]>>

\* C10: at most one of the create, remove and diagnostic mutations is in
\* flight at any time.
C10_AtMostOneMutationInFlight == PendingCount <= 1

C10_Witness ==
    /\ mutateCalls = 2
    /\ createLocation.status = "success"
    /\ Pending(removeLocation)
    /\ PendingCount = 1
====
